---- MODULE Spec2Model ----
(***************************************************************************)
(* A model of miele_gateway.py: a reverse proxy that signs GET requests   *)
(* for a Miele appliance, decrypts the AES-256-CBC response and returns   *)
(* JSON or an HTML exploration page.                                      *)
(*                                                                         *)
(* Text (Python str) and byte strings (Python bytes) are sequences: a str *)
(* is a sequence of one-character strings, a bytes value is a sequence of *)
(* integers 0..255.                                                        *)
(***************************************************************************)
EXTENDS Integers, Sequences, FiniteSets, TLC

VARIABLES
    vhPc, vhHost, vhResult,                 \* is_valid_host: input, result
    dcPc, dcPlain, dcKey, dcSig, dcOut,     \* decrypt: inputs, result
    hrPc, hrTree, hrHost, hrBase, hrOut,    \* iterate_to_all_hrefs: inputs, result
    group_key, group_id,    \* the group material loaded at start-up
    now,                    \* the clock, in half seconds
    pc,                     \* "idle", "sent" (awaiting the appliance), "done"
    rq_route, rq_resource,        \* the inbound request: "json", "explore" or "init"
    rq_host, rq_path,
    outbound,               \* the outbound calls made for the request
    reply,                  \* what the outbound call came back with
    results,                \* the responses returned to the caller
    decrypts,               \* the calls of decrypt made for the request
    inflight                \* the requests being handled at the same time, each
                            \* with the local variables of its handler

hostVars == <<vhPc, vhHost, vhResult>>
decryptVars == <<dcPc, dcPlain, dcKey, dcSig, dcOut>>
hrefVars == <<hrPc, hrTree, hrHost, hrBase, hrOut>>
configVars == <<group_key, group_id>>
requestVars == <<pc, rq_route, rq_resource, rq_host, rq_path, outbound, reply,
                 results, decrypts>>
gatewayVars == <<configVars, now, requestVars>>
threadVars == <<inflight>>
vars == <<hostVars, decryptVars, hrefVars, gatewayVars, threadVars>>

(***************************************************************************)
(* Python str methods used by the program.                                 *)
(***************************************************************************)
Digit == {"0", "1", "2", "3", "4", "5", "6", "7", "8", "9"}
Lower == {"a", "b", "c", "d", "e", "f", "g", "h", "i", "j", "k", "l", "m",
          "n", "o", "p", "q", "r", "s", "t", "u", "v", "w", "x", "y", "z"}
Upper == {"A", "B", "C", "D", "E", "F", "G", "H", "I", "J", "K", "L", "M",
          "N", "O", "P", "Q", "R", "S", "T", "U", "V", "W", "X", "Y", "Z"}
Alnum == Digit \cup Lower \cup Upper
HexDigit == Digit \cup {"a", "b", "c", "d", "e", "f", "A", "B", "C", "D", "E", "F"}

\* c * n
Rep(c, n) == [i \in 1..n |-> c]

\* c in s
Contains(s, c) == \E i \in 1..Len(s) : s[i] = c

\* s.startswith(p)
startswith(s, p) == Len(s) >= Len(p) /\ SubSeq(s, 1, Len(p)) = p

\* s.lstrip(c), s.rstrip(c), s.strip(c) for a one-character c
RECURSIVE lstrip(_, _)
lstrip(s, c) == IF s # <<>> /\ Head(s) = c THEN lstrip(Tail(s), c) ELSE s

RECURSIVE rstrip(_, _)
rstrip(s, c) ==
    IF s # <<>> /\ s[Len(s)] = c THEN rstrip(SubSeq(s, 1, Len(s) - 1), c) ELSE s

strip(s, c) == rstrip(lstrip(s, c), c)

\* s.split(sep) for a one-character sep: never the empty list
RECURSIVE split(_, _)
split(s, sep) ==
    IF ~Contains(s, sep) THEN <<s>>
    ELSE LET i == CHOOSE k \in 1..Len(s) :
                      s[k] = sep /\ \A j \in 1..(k - 1) : s[j] # sep
         IN  <<SubSeq(s, 1, i - 1)>> \o split(SubSeq(s, i + 1, Len(s)), sep)

\* sep.join(parts)
RECURSIVE join(_, _)
join(parts, sep) ==
    IF parts = <<>> THEN <<>>
    ELSE IF Len(parts) = 1 THEN parts[1]
    ELSE parts[1] \o sep \o join(Tail(parts), sep)

\* int(s) for a str of decimal digits
DigitValue(c) ==
    CASE c = "0" -> 0 [] c = "1" -> 1 [] c = "2" -> 2 [] c = "3" -> 3
      [] c = "4" -> 4 [] c = "5" -> 5 [] c = "6" -> 6 [] c = "7" -> 7
      [] c = "8" -> 8 [] c = "9" -> 9

RECURSIVE DecimalValue(_)
DecimalValue(s) ==
    IF s = <<>> THEN 0
    ELSE 10 * DecimalValue(SubSeq(s, 1, Len(s) - 1)) + DigitValue(s[Len(s)])

(***************************************************************************)
(* ipaddress.ip_address(host): the standard library's parser of IPv4 and  *)
(* IPv6 literals, TRUE when it returns and FALSE when it raises ValueError.*)
(***************************************************************************)
\* IPv4Address._parse_octet
parse_octet_ok(o) ==
    /\ o # <<>>
    /\ \A i \in 1..Len(o) : o[i] \in Digit
    /\ Len(o) <= 3
    /\ (o # <<"0">> => o[1] # "0")
    /\ DecimalValue(o) <= 255

\* IPv4Address(host)
IPv4Address_ok(h) ==
    /\ ~Contains(h, "/")
    /\ LET octets == split(h, ".")
       IN  Len(octets) = 4 /\ \A i \in 1..4 : parse_octet_ok(octets[i])

\* IPv6Address._parse_hextet
parse_hextet_ok(x) ==
    /\ x # <<>>
    /\ \A i \in 1..Len(x) : x[i] \in HexDigit
    /\ Len(x) <= 4

\* IPv6Address._ip_int_from_string on the text before any '%'
IPv6_int_from_string_ok(s) ==
    LET parts0 == split(s, ":")
        last0 == parts0[Len(parts0)]
        v4 == Contains(last0, ".")
        \* an IPv4-style suffix is replaced by two hextets
        parts == IF v4
                 THEN SubSeq(parts0, 1, Len(parts0) - 1) \o <<<<"0">>, <<"0">>>>
                 ELSE parts0
        n == Len(parts)
        skips == {i \in 2..(n - 1) : parts[i] = <<>>}
        skip_index == CHOOSE i \in skips : TRUE
        hi0 == skip_index - 1
        lo0 == n - skip_index
        parts_hi == IF parts[1] = <<>> THEN hi0 - 1 ELSE hi0
        parts_lo == IF parts[n] = <<>> THEN lo0 - 1 ELSE lo0
    IN  /\ s # <<>>
        /\ Len(parts0) >= 3
        /\ (v4 => IPv4Address_ok(last0))
        /\ n <= 9
        /\ Cardinality(skips) <= 1
        /\ IF skips # {}
           THEN /\ (parts[1] = <<>> => parts_hi = 0)
                /\ (parts[n] = <<>> => parts_lo = 0)
                /\ 8 - (parts_hi + parts_lo) >= 1
                /\ \A i \in 1..parts_hi : parse_hextet_ok(parts[i])
                /\ \A i \in (n - parts_lo + 1)..n : parse_hextet_ok(parts[i])
           ELSE /\ n = 8
                /\ \A i \in 1..n : parse_hextet_ok(parts[i])

\* IPv6Address(host): the scope id after '%' is split off first
IPv6Address_ok(h) ==
    /\ ~Contains(h, "/")
    /\ LET ps == split(h, "%")
       IN  /\ Len(ps) <= 2
           /\ (Len(ps) = 2 => ps[2] # <<>>)
           /\ IPv6_int_from_string_ok(ps[1])

ip_address_ok(h) == IPv4Address_ok(h) \/ IPv6Address_ok(h)

(***************************************************************************)
(* is_valid_host                                                           *)
(***************************************************************************)
\* [a-zA-Z0-9]([a-zA-Z0-9\-]{0,61}[a-zA-Z0-9])?
label_match(l) ==
    /\ Len(l) >= 1
    /\ Len(l) <= 63
    /\ l[1] \in Alnum
    /\ l[Len(l)] \in Alnum
    /\ \A i \in 1..Len(l) : l[i] \in Alnum \cup {"-"}

\* where Python's '$' matches: at the end of the string, and just before a
\* newline that is the last character
dollar_positions(h) ==
    {Len(h)} \cup (IF h # <<>> /\ h[Len(h)] = "\n" THEN {Len(h) - 1} ELSE {})

\* re.match(hostname_regex, host) is not None
hostname_regex_match(h) ==
    \E e \in dollar_positions(h) :
        LET labels == split(SubSeq(h, 1, e), ".")
        IN  \A i \in 1..Len(labels) : label_match(labels[i])

is_valid_host(host) ==
    IF host = <<>> THEN FALSE
    ELSE IF ip_address_ok(host) THEN TRUE
    ELSE Len(host) <= 253 /\ hostname_regex_match(host)

(***************************************************************************)
(* Python bytes: hex conversion and UTF-8 text.                            *)
(***************************************************************************)
\* chr() of the code points 0..127; a character TLA+ cannot write in a
\* string is named "U+hhhh"
AsciiTable ==
    <<"U+0000", "U+0001", "U+0002", "U+0003", "U+0004", "U+0005", "U+0006", "U+0007",
      "U+0008", "\t", "\n", "U+000B", "\f", "\r", "U+000E", "U+000F",
      "U+0010", "U+0011", "U+0012", "U+0013", "U+0014", "U+0015", "U+0016", "U+0017",
      "U+0018", "U+0019", "U+001A", "U+001B", "U+001C", "U+001D", "U+001E", "U+001F",
      " ", "!", "\"", "#", "$", "%", "&", "'",
      "(", ")", "*", "+", ",", "-", ".", "/",
      "0", "1", "2", "3", "4", "5", "6", "7",
      "8", "9", ":", ";", "<", "=", ">", "?",
      "@", "A", "B", "C", "D", "E", "F", "G",
      "H", "I", "J", "K", "L", "M", "N", "O",
      "P", "Q", "R", "S", "T", "U", "V", "W",
      "X", "Y", "Z", "[", "U+005C", "]", "^", "_",
      "U+0060", "a", "b", "c", "d", "e", "f", "g",
      "h", "i", "j", "k", "l", "m", "n", "o",
      "p", "q", "r", "s", "t", "u", "v", "w",
      "x", "y", "z", "{", "|", "}", "~", "U+007F">>

\* bytes.decode('utf-8', errors='replace'), byte by byte: an ASCII byte is
\* its character, and a byte of 0x80..0xFF that starts no valid sequence
\* becomes U+FFFD. (The byte strings of this model hold no valid multi-byte
\* sequence.)
decode_utf8_replace(b) ==
    [i \in 1..Len(b) |-> IF b[i] < 128 THEN AsciiTable[b[i] + 1] ELSE "U+FFFD"]

\* str.encode('utf-8') of ASCII text
encode_utf8(t) ==
    [i \in 1..Len(t) |-> CHOOSE b \in 0..127 : AsciiTable[b + 1] = t[i]]

AsciiWhitespace == {" ", "\t", "\n", "\r", "\f", "U+000B"}

HexValue(c) ==
    CASE c \in Digit -> DigitValue(c)
      [] c \in {"a", "A"} -> 10 [] c \in {"b", "B"} -> 11
      [] c \in {"c", "C"} -> 12 [] c \in {"d", "D"} -> 13
      [] c \in {"e", "E"} -> 14 [] c \in {"f", "F"} -> 15

\* bytes.fromhex(s): whitespace between the pairs of hex digits is skipped;
\* anything else raises ValueError (ok = FALSE)
bytes_fromhex(s) ==
    LET NotSpace(i) == s[i] \notin AsciiWhitespace
        at == SelectSeq([i \in 1..Len(s) |-> i], NotSpace)
        pairs == Len(at) \div 2
    IN  IF /\ Len(at) % 2 = 0
           /\ \A k \in 1..pairs :
                 /\ at[2 * k] = at[2 * k - 1] + 1
                 /\ s[at[2 * k - 1]] \in HexDigit
                 /\ s[at[2 * k]] \in HexDigit
        THEN [ok |-> TRUE,
              data |-> IF pairs = 0 THEN <<>>
                       ELSE [k \in 1..pairs |->
                                16 * HexValue(s[at[2 * k - 1]]) + HexValue(s[at[2 * k]])]]
        ELSE [ok |-> FALSE, data |-> <<>>]

UpperHexDigits ==
    <<"0", "1", "2", "3", "4", "5", "6", "7", "8", "9", "A", "B", "C", "D", "E", "F">>

\* b.hex().upper()
hex_upper(b) ==
    [i \in 1..(2 * Len(b)) |->
        LET byte == b[(i + 1) \div 2]
        IN  IF i % 2 = 1 THEN UpperHexDigits[(byte \div 16) + 1]
            ELSE UpperHexDigits[(byte % 16) + 1]]

(***************************************************************************)
(* AES-256-CBC as the cryptography library provides it.                    *)
(***************************************************************************)
BlockSize == 16
KeySize == 32

\* a ^ b on bytes
RECURSIVE Xor(_, _)
Xor(a, b) ==
    IF a = 0 THEN b
    ELSE IF b = 0 THEN a
    ELSE ((a + b) % 2) + 2 * Xor(a \div 2, b \div 2)

\* The AES-256 block cipher is the library's. It is modelled as a keyed
\* permutation of 16-byte blocks (a rotation of the block's bytes, xored
\* with both halves of the key), which has the one property the program
\* relies on: decrypting under the key inverts encrypting under it.
AES_round_key(key, i) == Xor(key[i], key[i + BlockSize])

AES_encrypt_block(key, blk) ==
    [i \in 1..BlockSize |-> Xor(blk[(i % BlockSize) + 1], AES_round_key(key, i))]

AES_decrypt_block(key, blk) ==
    [j \in 1..BlockSize |->
        LET i == ((j + BlockSize - 2) % BlockSize) + 1
        IN  Xor(blk[i], AES_round_key(key, i))]

XorBlock(a, b) == [i \in 1..BlockSize |-> Xor(a[i], b[i])]

\* decryptor.update(payload): every complete block, CBC-chained
RECURSIVE CBC_decrypt_blocks(_, _, _)
CBC_decrypt_blocks(key, prev, data) ==
    IF Len(data) < BlockSize THEN <<>>
    ELSE LET blk == SubSeq(data, 1, BlockSize)
         IN  XorBlock(AES_decrypt_block(key, blk), prev)
                 \o CBC_decrypt_blocks(key, blk, SubSeq(data, BlockSize + 1, Len(data)))

\* decryptor.update(payload) + decryptor.finalize() of
\* Cipher(algorithms.AES(key), modes.CBC(iv)): finalize() raises ValueError
\* when the data is not a whole number of blocks, and returns b'' otherwise.
\* A Cipher context does no padding and removes none.
cipher_update_finalize(key, iv, payload) ==
    IF Len(payload) % BlockSize # 0
    THEN [ok |-> FALSE, data |-> <<>>]
    ELSE [ok |-> TRUE, data |-> CBC_decrypt_blocks(key, iv, payload)]

(***************************************************************************)
(* decrypt(payload, group_key, signature_hex): ok = FALSE is ValueError.   *)
(***************************************************************************)
\* cipher holds the key and IV the Cipher was constructed with, if it was.
NoCipher == <<>>
ValueError == [ok |-> FALSE, data |-> <<>>, cipher |-> NoCipher]

\* decrypt with a short signature padded with zero bytes to a 16-byte IV
decrypt_pads_short_iv(payload, key_bytes, signature_hex) ==
    IF Len(key_bytes) < 32 THEN ValueError
    ELSE LET key == SubSeq(key_bytes, 1, 32)
             iv_buf == bytes_fromhex(signature_hex)
         IN  IF ~iv_buf.ok THEN ValueError
             ELSE LET iv == SubSeq(iv_buf.data \o Rep(0, 16), 1, 16)
                      out == cipher_update_finalize(key, iv, payload)
                  IN  [ok |-> out.ok, data |-> out.data,
                       cipher |-> <<[key |-> key, iv |-> iv]>>]

decrypt(payload, key_bytes, signature_hex) ==
    IF Len(key_bytes) < 32 THEN ValueError
    ELSE LET key == SubSeq(key_bytes, 1, 32)
             iv_buf == bytes_fromhex(signature_hex)
         IN  IF ~iv_buf.ok THEN ValueError
             ELSE IF Len(iv_buf.data) < 16 THEN ValueError
             ELSE LET iv == SubSeq(iv_buf.data, 1, 16)
                      out == cipher_update_finalize(key, iv, payload)
                  IN  [ok |-> out.ok, data |-> out.data,
                       cipher |-> <<[key |-> key, iv |-> iv]>>]

(***************************************************************************)
(* The appliance's side of the protocol: AES-256-CBC encryption with       *)
(* standard (PKCS#7) padding, as the specification states it.              *)
(***************************************************************************)
pkcs7_pad(p) ==
    LET n == BlockSize - (Len(p) % BlockSize) IN p \o Rep(n, n)

pkcs7_valid(d) ==
    /\ d # <<>>
    /\ d[Len(d)] \in 1..BlockSize
    /\ d[Len(d)] <= Len(d)
    /\ \A i \in (Len(d) - d[Len(d)] + 1)..Len(d) : d[i] = d[Len(d)]

RECURSIVE CBC_encrypt_blocks(_, _, _)
CBC_encrypt_blocks(key, prev, data) ==
    IF Len(data) < BlockSize THEN <<>>
    ELSE LET blk == AES_encrypt_block(key, XorBlock(SubSeq(data, 1, BlockSize), prev))
         IN  blk \o CBC_encrypt_blocks(key, blk, SubSeq(data, BlockSize + 1, Len(data)))

\* the ciphertext of plaintext p under the group key and a signature
device_encrypt(p, key_bytes, sig_bytes) ==
    CBC_encrypt_blocks(SubSeq(key_bytes, 1, KeySize), SubSeq(sig_bytes, 1, BlockSize),
                       pkcs7_pad(p))

(***************************************************************************)
(* iterate_to_all_hrefs. A parsed JSON value is a node: t is its type     *)
(* ("obj", "arr", "str", "num", "lit"), s the text of a str, num or lit,  *)
(* kids the fields of an obj in order (k the key, v the value) or the     *)
(* items of an arr (k empty). The function mutates the tree in place; the *)
(* operator returns the tree as it is afterwards.                         *)
(***************************************************************************)
JStr(text) == [t |-> "str", s |-> text, kids |-> <<>>]
JNum(text) == [t |-> "num", s |-> text, kids |-> <<>>]
JLit(text) == [t |-> "lit", s |-> text, kids |-> <<>>]
JObj(fields) == [t |-> "obj", s |-> <<>>, kids |-> fields]
JArr(items) == [t |-> "arr", s |-> <<>>, kids |-> [i \in 1..Len(items) |-> [k |-> <<>>, v |-> items[i]]]]
Field(key, value) == [k |-> key, v |-> value]

HrefKey == <<"h", "r", "e", "f">>

\* lines 132-138: the anchor that replaces the href value
proxy_anchor(host, base_path, value) ==
    LET full_target_path == rstrip(base_path, "/") \o <<"/">> \o lstrip(value, "/")
        proxy_link == <<"/", "e", "x", "p", "l", "o", "r", "e", "/">> \o host
                          \o <<"/">> \o lstrip(full_target_path, "/")
    IN  <<"<", "a", " ", "h", "r", "e", "f", "=", "\"">> \o proxy_link
            \o <<"\"", ">">> \o value \o <<"<", "/", "a", ">">>

\* iterate_to_all_hrefs with the recursion only under keys other than 'href'
RECURSIVE iterate_to_all_hrefs_skip_href_children(_, _, _)
iterate_to_all_hrefs_skip_href_children(obj, host, base_path) ==
    IF obj.t = "obj"
    THEN [obj EXCEPT !.kids =
            [i \in 1..Len(obj.kids) |->
                LET key == obj.kids[i].k
                    value == obj.kids[i].v
                IN  IF key = HrefKey
                    THEN IF value.t = "str" /\ value.s # <<>>
                         THEN Field(key, JStr(proxy_anchor(host, base_path, value.s)))
                         ELSE Field(key, value)
                    ELSE Field(key, iterate_to_all_hrefs_skip_href_children(
                                        value, host, base_path))]]
    ELSE IF obj.t = "arr"
    THEN [obj EXCEPT !.kids =
            [i \in 1..Len(obj.kids) |->
                Field(<<>>, iterate_to_all_hrefs_skip_href_children(
                                obj.kids[i].v, host, base_path))]]
    ELSE obj

RECURSIVE iterate_to_all_hrefs(_, _, _)
iterate_to_all_hrefs(obj, host, base_path) ==
    IF obj.t = "obj"
    THEN [obj EXCEPT !.kids =
            [i \in 1..Len(obj.kids) |->
                LET key == obj.kids[i].k
                    value == obj.kids[i].v
                IN  IF key = HrefKey /\ value.t = "str" /\ value.s # <<>>
                    THEN Field(key, JStr(proxy_anchor(host, base_path, value.s)))
                    ELSE Field(key, iterate_to_all_hrefs(value, host, base_path))]]
    ELSE IF obj.t = "arr"
    THEN [obj EXCEPT !.kids =
            [i \in 1..Len(obj.kids) |->
                Field(<<>>, iterate_to_all_hrefs(obj.kids[i].v, host, base_path))]]
    ELSE obj

(***************************************************************************)
(* json.loads on the JSON this model's documents use: objects, arrays,    *)
(* strings without escapes, unsigned integers, true, false, null and      *)
(* whitespace. ok = FALSE is json.JSONDecodeError.                         *)
(***************************************************************************)
JsonWhitespace == {" ", "\t", "\n", "\r"}
JsonFail == [ok |-> FALSE, v |-> JLit(<<>>), next |-> 0]

\* a character json.loads refuses inside a string: a control character, or
\* the backslash that would start an escape
JsonStringStop == {AsciiTable[i] : i \in 1..32} \cup {"U+005C"}

RECURSIVE json_skip_ws(_, _)
json_skip_ws(s, i) ==
    IF i <= Len(s) /\ s[i] \in JsonWhitespace THEN json_skip_ws(s, i + 1) ELSE i

\* the string whose opening quote is s[i]
json_string(s, i) ==
    LET closing == {j \in (i + 1)..Len(s) : s[j] = "\"" /\ \A k \in (i + 1)..(j - 1) : s[k] # "\""}
    IN  IF closing = {} THEN JsonFail
        ELSE LET j == CHOOSE c \in closing : TRUE
             IN  IF \E k \in (i + 1)..(j - 1) : s[k] \in JsonStringStop THEN JsonFail
                 ELSE [ok |-> TRUE, v |-> JStr(SubSeq(s, i + 1, j - 1)), next |-> j + 1]

RECURSIVE json_digits_end(_, _)
json_digits_end(s, i) ==
    IF i <= Len(s) /\ s[i] \in Digit THEN json_digits_end(s, i + 1) ELSE i

\* d[k] = v on a dict given as its fields in insertion order
dict_set(fields, key, value) ==
    IF \E i \in 1..Len(fields) : fields[i].k = key
    THEN [i \in 1..Len(fields) |-> IF fields[i].k = key THEN Field(key, value) ELSE fields[i]]
    ELSE Append(fields, Field(key, value))

RECURSIVE json_value(_, _)
RECURSIVE json_members(_, _, _)
RECURSIVE json_items(_, _, _)

\* the members of an object from position i (a key), acc the fields so far
json_members(s, i, acc) ==
    IF i > Len(s) \/ s[i] # "\"" THEN JsonFail
    ELSE LET key == json_string(s, i)
             colon == json_skip_ws(s, key.next)
         IN  IF ~key.ok \/ colon > Len(s) \/ s[colon] # ":" THEN JsonFail
             ELSE LET val == json_value(s, json_skip_ws(s, colon + 1))
                      after == json_skip_ws(s, val.next)
                      fields == dict_set(acc, key.v.s, val.v)
                  IN  IF ~val.ok \/ after > Len(s) THEN JsonFail
                      ELSE IF s[after] = "}"
                      THEN [ok |-> TRUE, v |-> JObj(fields), next |-> after + 1]
                      ELSE IF s[after] = ","
                      THEN json_members(s, json_skip_ws(s, after + 1), fields)
                      ELSE JsonFail

\* the items of an array from position i (a value), acc the items so far
json_items(s, i, acc) ==
    LET val == json_value(s, i)
        after == json_skip_ws(s, val.next)
    IN  IF ~val.ok \/ after > Len(s) THEN JsonFail
        ELSE IF s[after] = "]"
        THEN [ok |-> TRUE, v |-> JArr(Append(acc, val.v)), next |-> after + 1]
        ELSE IF s[after] = ","
        THEN json_items(s, json_skip_ws(s, after + 1), Append(acc, val.v))
        ELSE JsonFail

json_value(s, i) ==
    IF i > Len(s) THEN JsonFail
    ELSE IF s[i] = "{"
    THEN LET j == json_skip_ws(s, i + 1)
         IN  IF j <= Len(s) /\ s[j] = "}"
             THEN [ok |-> TRUE, v |-> JObj(<<>>), next |-> j + 1]
             ELSE json_members(s, j, <<>>)
    ELSE IF s[i] = "["
    THEN LET j == json_skip_ws(s, i + 1)
         IN  IF j <= Len(s) /\ s[j] = "]"
             THEN [ok |-> TRUE, v |-> JArr(<<>>), next |-> j + 1]
             ELSE json_items(s, j, <<>>)
    ELSE IF s[i] = "\"" THEN json_string(s, i)
    ELSE IF s[i] \in Digit
    THEN LET e == json_digits_end(s, i)
         IN  [ok |-> TRUE, v |-> JNum(SubSeq(s, i, e - 1)), next |-> e]
    ELSE IF \E w \in {<<"t", "r", "u", "e">>, <<"f", "a", "l", "s", "e">>,
                      <<"n", "u", "l", "l">>} : startswith(SubSeq(s, i, Len(s)), w)
    THEN LET w == CHOOSE x \in {<<"t", "r", "u", "e">>, <<"f", "a", "l", "s", "e">>,
                                <<"n", "u", "l", "l">>} : startswith(SubSeq(s, i, Len(s)), x)
         IN  [ok |-> TRUE, v |-> JLit(w), next |-> i + Len(w)]
    ELSE JsonFail

json_loads(s) ==
    LET val == json_value(s, json_skip_ws(s, 1))
    IN  IF val.ok /\ json_skip_ws(s, val.next) = Len(s) + 1 THEN val ELSE JsonFail

(***************************************************************************)
(* The request handlers.                                                   *)
(***************************************************************************)
accept_header ==
    <<"a", "p", "p", "l", "i", "c", "a", "t", "i", "o", "n", "/", "v", "n", "d", ".",
      "m", "i", "e", "l", "e", ".", "v", "1", "+", "j", "s", "o", "n">>

user_agent ==
    <<"M", "i", "e", "l", "e", "@", "m", "o", "b", "i", "l", "e", " ", "2", ".", "3",
      ".", "3", " ", "A", "n", "d", "r", "o", "i", "d">>

MieleH256 == <<"M", "i", "e", "l", "e", "H", "2", "5", "6", " ">>

\* the date with tenths of a second after the seconds
get_current_time_in_http_format_subsecond(t) ==
    LET sec == (t \div 2) % 60
    IN  <<"T", "u", "e", ",", " ", "0", "1", " ", "J", "a", "n", " ", "2", "0", "3",
          "0", " ", "0", "0", ":", "0", "0", ":">>
            \o <<UpperHexDigits[(sec \div 10) + 1], UpperHexDigits[(sec % 10) + 1]>>
            \o <<".", IF t % 2 = 0 THEN "0" ELSE "5">>
            \o <<" ", "G", "M", "T">>

\* The clock counts half seconds from Tue, 01 Jan 2030 00:00:00 GMT;
\* strftime('%a, %d %b %Y %H:%M:%S GMT') keeps whole seconds.
get_current_time_in_http_format(t) ==
    LET sec == (t \div 2) % 60
    IN  <<"T", "u", "e", ",", " ", "0", "1", " ", "J", "a", "n", " ", "2", "0", "3",
          "0", " ", "0", "0", ":", "0", "0", ":">>
            \o <<UpperHexDigits[(sec \div 10) + 1], UpperHexDigits[(sec % 10) + 1]>>
            \o <<" ", "G", "M", "T">>

\* Module start-up: GROUP_KEY and GROUP_ID from the environment, and the
\* placeholders when either is not hex.
load_group_material(group_key_hex, group_id_hex) ==
    LET k == bytes_fromhex(group_key_hex)
        i == bytes_fromhex(group_id_hex)
    IN  IF k.ok /\ i.ok THEN [group_key |-> k.data, group_id |-> i.data]
        ELSE [group_key |-> Rep(0, 64), group_id |-> Rep(0, 8)]

\* hmac.new(key, msg, hashlib.sha256).digest().hex().upper(): the digest is
\* kept as the term HMAC(key, msg), which is equal for equal inputs only.
hmac_sha256_hex_upper(key, msg) == [key |-> key, msg |-> msg]

\* line 289, without the empty Content-Type line
signing_string_no_blank_line(host, resource_path_on_device, current_time_gmt) ==
    <<"G", "E", "T", "\n">> \o host \o resource_path_on_device \o <<"\n">>
        \o accept_header \o <<"\n">> \o current_time_gmt \o <<"\n">>

signing_string(host, resource_path_on_device, current_time_gmt) ==
    <<"G", "E", "T", "\n">> \o host \o resource_path_on_device \o <<"\n", "\n">>
        \o accept_header \o <<"\n">> \o current_time_gmt \o <<"\n">>

\* a caller-visible response: the status, what the body is (kind), the error
\* the body names, the body's text and, for the exploration page, its tree
Result(status, kind, error, text, tree) ==
    [status |-> status, kind |-> kind, error |-> error, text |-> text, tree |-> tree]

ErrorResult(status, error, details) ==
    Result(status, "error_json", error, details, JLit(<<>>))

\* what a handler does before its outbound call
Answered(result) ==
    [done |-> TRUE, result |-> result, host |-> <<>>,
     resource_path_on_device |-> <<>>, calls |-> <<>>]

Calling(host, path, call) ==
    [done |-> FALSE, result |-> ErrorResult(0, "", <<>>), host |-> host,
     resource_path_on_device |-> path, calls |-> <<call>>]

favicon == <<"f", "a", "v", "i", "c", "o", "n", ".", "i", "c", "o">>

\* main_route, lines 252-316: from the inbound path to req.get
main_route_request(resource, t, key, id) ==
    IF resource = favicon
    THEN Answered(Result(204, "empty", "", <<>>, JLit(<<>>)))
    ELSE LET path_parts == split(strip(resource, "/"), "/")
         IN  IF path_parts = <<>> \/ path_parts[1] = <<>>
             THEN Answered(ErrorResult(400, "missing_host", <<>>))
             ELSE LET host == path_parts[1]
                  IN  IF ~is_valid_host(host)
                      THEN Answered(ErrorResult(400, "invalid_host", host))
                      ELSE LET resource_path_on_device ==
                                   <<"/">> \o join(Tail(path_parts), <<"/">>)
                               current_time_gmt == get_current_time_in_http_format(t)
                               string_to_sign ==
                                   signing_string(host, resource_path_on_device,
                                                  current_time_gmt)
                               auth_header_value ==
                                   [scheme |-> MieleH256,
                                    id |-> hex_upper(id),
                                    signature |-> hmac_sha256_hex_upper(key, string_to_sign)]
                               headers ==
                                   [Accept |-> accept_header,
                                    Date |-> current_time_gmt,
                                    UserAgent |-> user_agent,
                                    Host |-> host,
                                    Authorization |-> auth_header_value,
                                    AcceptEncoding |-> <<"g", "z", "i", "p">>]
                               target_url == <<"h", "t", "t", "p", ":", "/", "/">>
                                                 \o host \o resource_path_on_device
                           IN  Calling(host, resource_path_on_device,
                                       [method |-> "GET", url |-> target_url,
                                        headers |-> headers, timeout |-> 20, at |-> t])

\* init making its call before the host is looked at
init_request_call_first(resource, t, key, id) ==
    LET path_parts == split(strip(resource, "/"), "/")
        host == IF path_parts = <<>> THEN <<>> ELSE path_parts[1]
        init_resource_path ==
            <<"/", "S", "e", "c", "u", "r", "i", "t", "y", "/", "C", "o",
              "m", "m", "i", "s", "s", "i", "o", "n", "i", "n", "g", "/">>
    IN  Calling(host, init_resource_path,
                [method |-> "PUT",
                 url |-> <<"h", "t", "t", "p", ":", "/", "/">> \o host \o init_resource_path,
                 headers |-> [Accept |-> accept_header,
                              Date |-> get_current_time_in_http_format(t),
                              UserAgent |-> user_agent,
                              Host |-> host,
                              AcceptEncoding |-> <<"g", "z", "i", "p">>,
                              ContentType |-> "application/json; charset=utf-8"],
                 json |-> [GroupID |-> hex_upper(id), GroupKey |-> hex_upper(key)],
                 timeout |-> 20, at |-> t])

\* init, lines 159-195: from the inbound path to req.put
init_request(resource, t, key, id) ==
    LET path_parts == split(strip(resource, "/"), "/")
    IN  IF path_parts = <<>>
        THEN Answered(ErrorResult(400, "missing_host", <<>>))
        ELSE LET host == path_parts[1]
             IN  IF ~is_valid_host(host)
                 THEN Answered(ErrorResult(400, "invalid_host", host))
                 ELSE LET init_resource_path ==
                              <<"/", "S", "e", "c", "u", "r", "i", "t", "y", "/", "C", "o",
                                "m", "m", "i", "s", "s", "i", "o", "n", "i", "n", "g", "/">>
                          headers ==
                              [Accept |-> accept_header,
                               Date |-> get_current_time_in_http_format(t),
                               UserAgent |-> user_agent,
                               Host |-> host,
                               AcceptEncoding |-> <<"g", "z", "i", "p">>,
                               ContentType |-> "application/json; charset=utf-8"]
                          payload_data == [GroupID |-> hex_upper(id),
                                           GroupKey |-> hex_upper(key)]
                      IN  Calling(host, init_resource_path,
                                  [method |-> "PUT",
                                   url |-> <<"h", "t", "t", "p", ":", "/", "/">>
                                               \o host \o init_resource_path,
                                   headers |-> headers, json |-> payload_data,
                                   timeout |-> 20, at |-> t])

(***************************************************************************)
(* What the outbound call comes back with: an exception of the requests   *)
(* library (exc), or a response (exc = "none").                            *)
(***************************************************************************)
Header(value) == [present |-> TRUE, value |-> value]
NoHeader == [present |-> FALSE, value |-> <<>>]
Response(status, content, x_signature) ==
    [status |-> status, content |-> content, x_signature |-> x_signature]
NoResponse == Response(0, <<>>, NoHeader)

\* the classes an exception is an instance of
ExceptionBases(exc) ==
    CASE exc = "HTTPError" -> {"HTTPError", "RequestException", "Exception"}
      [] exc = "ConnectTimeout" ->
            {"ConnectTimeout", "ConnectionError", "Timeout", "RequestException", "Exception"}
      [] exc = "ReadTimeout" -> {"ReadTimeout", "Timeout", "RequestException", "Exception"}
      [] exc = "ConnectionError" -> {"ConnectionError", "RequestException", "Exception"}
      [] exc = "TooManyRedirects" -> {"TooManyRedirects", "RequestException", "Exception"}
      [] exc = "ValueError" -> {"ValueError", "Exception"}

Except(class, status, error) == [class |-> class, status |-> status, error |-> error]

\* lines 409-434 with 'except ConnectionError' before 'except Timeout'
main_route_handlers_connection_first ==
    << Except("HTTPError", 0, "http_error"),
       Except("ConnectionError", 503, "connection"),
       Except("Timeout", 504, "timeout"),
       Except("RequestException", 500, "request_failed"),
       Except("ValueError", 500, "data_processing"),
       Except("Exception", 500, "internal") >>

\* the except clauses of main_route, in order (lines 409-434)
main_route_handlers ==
    << Except("HTTPError", 0, "http_error"),
       Except("Timeout", 504, "timeout"),
       Except("ConnectionError", 503, "connection"),
       Except("RequestException", 500, "request_failed"),
       Except("ValueError", 500, "data_processing"),
       Except("Exception", 500, "internal") >>

\* the except clauses of init, in order (lines 215-235)
init_handlers ==
    << Except("HTTPError", 0, "http_error"),
       Except("Timeout", 504, "timeout"),
       Except("ConnectionError", 503, "connection"),
       Except("RequestException", 500, "request_failed"),
       Except("Exception", 500, "internal") >>

no_details == <<"N", "o", " ", "d", "e", "t", "a", "i", "l", "s", " ", "p", "r", "o",
                "v", "i", "d", "e", "d", ".">>

\* the first except clause that matches, and what it returns
handle_exception(handlers, exc, response) ==
    LET i == CHOOSE k \in 1..Len(handlers) :
                 /\ handlers[k].class \in ExceptionBases(exc)
                 /\ \A j \in 1..(k - 1) : handlers[j].class \notin ExceptionBases(exc)
    IN  IF handlers[i].class = "HTTPError"
        THEN ErrorResult(response.status, "http_error",
                         IF response.content # <<>>
                         THEN decode_utf8_replace(response.content) ELSE no_details)
        ELSE ErrorResult(handlers[i].status, handlers[i].error, <<>>)

\* response.raise_for_status() raises HTTPError
raise_for_status(response) == response.status >= 400 /\ response.status < 600

\* line 329, with the empty body left out
no_content_204_only(response) == response.status = 204

\* line 329
no_content(response) == response.status = 204 \/ response.content = <<>>

Raised(exc, calls) ==
    [raised |-> exc, result |-> ErrorResult(0, "", <<>>), decrypts |-> calls]
Returned(result, calls) ==
    [raised |-> "none", result |-> result, decrypts |-> calls]

\* main_route, lines 316-406: the body of the try block from req.get on.
\* decrypts lists the calls of decrypt: its arguments and the Cipher it built.
main_route_try(explore_mode, host, resource_path_on_device, outcome, key) ==
    IF outcome.exc # "none" THEN Raised(outcome.exc, <<>>)
    ELSE LET response == outcome.response
             response_signature_header == response.x_signature
             sig_parts == split(response_signature_header.value, ":")
             server_signature_hex == sig_parts[2]
             dec == decrypt(response.content, key, server_signature_hex)
             log == <<[payload |-> response.content,
                       signature_hex |-> server_signature_hex,
                       cipher |-> dec.cipher]>>
             decrypted_str == decode_utf8_replace(dec.data)
             json_data == json_loads(decrypted_str)
         IN  IF raise_for_status(response) THEN Raised("HTTPError", <<>>)
             ELSE IF no_content(response)
             THEN IF explore_mode
                  THEN Returned(Result(response.status, "html_no_content", "",
                                       host \o resource_path_on_device, JLit(<<>>)), <<>>)
                  ELSE Returned(Result(204, "empty", "", <<>>, JLit(<<>>)), <<>>)
             ELSE IF ~response_signature_header.present
                        \/ response_signature_header.value = <<>>
             THEN Returned(ErrorResult(500, "missing_signature", <<>>), <<>>)
             ELSE IF Len(sig_parts) # 2 \/ ~startswith(sig_parts[1], MieleH256)
             THEN Returned(ErrorResult(500, "invalid_signature_format", <<>>), <<>>)
             ELSE IF ~dec.ok THEN Raised("ValueError", log)
             ELSE IF explore_mode
             THEN IF json_data.ok
                  THEN Returned(Result(200, "html_json", "", <<>>,
                                       iterate_to_all_hrefs(json_data.v, host,
                                                            resource_path_on_device)), log)
                  ELSE Returned(Result(200, "html_not_json", "", decrypted_str,
                                       JLit(<<>>)), log)
             ELSE Returned(Result(200, "json", "", decrypted_str, JLit(<<>>)), log)

\* main_route from req.get to its return
main_route_response(explore_mode, host, resource_path_on_device, outcome, key) ==
    LET try == main_route_try(explore_mode, host, resource_path_on_device, outcome, key)
    IN  IF try.raised = "none" THEN [result |-> try.result, decrypts |-> try.decrypts]
        ELSE [result |-> handle_exception(main_route_handlers, try.raised,
                                          outcome.response),
              decrypts |-> try.decrypts]

\* init from req.put to its return (lines 195-235)
init_response(outcome) ==
    IF outcome.exc # "none"
    THEN [result |-> handle_exception(init_handlers, outcome.exc, outcome.response),
          decrypts |-> <<>>]
    ELSE IF raise_for_status(outcome.response)
    THEN [result |-> handle_exception(init_handlers, "HTTPError", outcome.response),
          decrypts |-> <<>>]
    ELSE [result |-> Result(outcome.response.status, "device_raw", "",
                            outcome.response.content, JLit(<<>>)),
          decrypts |-> <<>>]

(***************************************************************************)
(* SpecHost: is_valid_host applied to one candidate host.                  *)
(***************************************************************************)
MaxLabel == 63
MaxHost == 253

HostLabels ==
    { <<"a">>, <<"b", "1">>, <<"a", "-", "b">>, <<"-", "a">>, <<"a", "-">>,
      <<>>, <<"a", "_", "b">>, <<"A", "9">>, <<"a", " ">>,
      Rep("a", MaxLabel), Rep("a", MaxLabel + 1),
      <<"x">> \o Rep("-", MaxLabel - 2) \o <<"y">> }

HostTails == { <<>>, <<"\n">>, <<".">>, <<"\n", "\n">> }

IPLiterals ==
    { <<"1", "9", "2", ".", "1", "6", "8", ".", "1", ".", "1", "0">>,
      <<"1", ".", "2", ".", "3", ".", "4">>,
      <<"2", "5", "6", ".", "1", ".", "1", ".", "1">>,
      <<"0", "1", ".", "2", ".", "3", ".", "4">>,
      <<"1", ".", "2", ".", "3">>,
      <<":", ":", "1">>, <<":", ":">>, <<":", ":", ":">>,
      <<"f", "e", "8", "0", ":", ":", "1">>,
      <<"f", "e", "8", "0", ":", ":", "1", "%", "e">>,
      <<":", ":", "f", ":", "1", ".", "2", ".", "3", ".", "4">>,
      <<"1", ":", "2", ":", "3", ":", "4", ":", "5", ":", "6", ":", "7", ":", "8">>,
      <<"1", ":", "2", ":", "3", ":", "4", ":", "5", ":", "6", ":", "7">>,
      <<"1", ":", ":", "2", ":", ":", "3">>,
      <<"1", "2", "3", "4", "5", ":", ":">> }

\* hosts of MaxHost - 1, MaxHost and MaxHost + 1 characters, every label full
LongHost(n) ==
    Rep("a", MaxLabel) \o <<".">> \o Rep("b", MaxLabel) \o <<".">>
        \o Rep("c", MaxLabel) \o <<".">> \o Rep("d", n - 3 * (MaxLabel + 1))

HostCandidates ==
    HostLabels
    \cup {a \o <<".">> \o b \o t : a \in HostLabels, b \in HostLabels, t \in HostTails}
    \cup {h \o t : h \in IPLiterals, t \in {<<>>, <<"\n">>}}
    \cup {LongHost(n) \o t : n \in (MaxHost - 1)..(MaxHost + 1), t \in {<<>>, <<"\n">>}}

HostIdle == vhPc = "off" /\ vhHost = <<>> /\ vhResult = FALSE

DecryptIdle ==
    /\ dcPc = "off"
    /\ dcPlain = <<>>
    /\ dcKey = <<>>
    /\ dcSig = <<>>
    /\ dcOut = ValueError

HrefIdle ==
    /\ hrPc = "off"
    /\ hrTree = JLit(<<>>)
    /\ hrHost = <<>>
    /\ hrBase = <<>>
    /\ hrOut = JLit(<<>>)

NoOutcome == [exc |-> "pending", response |-> NoResponse]

NoRequest ==
    /\ pc = "idle"
    /\ rq_route = ""
    /\ rq_resource = <<>>
    /\ rq_host = <<>>
    /\ rq_path = <<>>
    /\ outbound = <<>>
    /\ reply = NoOutcome
    /\ results = <<>>
    /\ decrypts = <<>>

GatewayIdle ==
    /\ group_key = <<>>
    /\ group_id = <<>>
    /\ now = 0
    /\ NoRequest

ThreadsIdle == inflight = <<>>

InitHost ==
    /\ vhPc = "in" /\ vhHost \in HostCandidates /\ vhResult = FALSE
    /\ DecryptIdle
    /\ HrefIdle
    /\ GatewayIdle
    /\ ThreadsIdle

ValidateHost ==
    /\ vhPc = "in"
    /\ vhResult' = is_valid_host(vhHost)
    /\ vhPc' = "out"
    /\ UNCHANGED <<vhHost, decryptVars, hrefVars, gatewayVars, threadVars>>

NextHost == ValidateHost

SpecHost == InitHost /\ [][NextHost]_vars

\* The hostname syntax the specification states: dot-separated labels of
\* letters, digits and hyphens, each of 1..63 characters, no hyphen at a
\* label boundary, at most 253 characters in all.
StatedLabel(l) ==
    /\ Len(l) \in 1..63
    /\ l[1] # "-"
    /\ l[Len(l)] # "-"

StatedHostname(h) ==
    /\ h # <<>>
    /\ Len(h) <= 253
    /\ \A i \in 1..Len(h) : h[i] \in Alnum \cup {"-", "."}
    /\ \A i \in 1..Len(split(h, ".")) : StatedLabel(split(h, ".")[i])

\* C5: is_valid_host accepts exactly the valid IPv4/IPv6 literals and the
\* valid DNS hostnames, and rejects every other string: the empty string, a
\* string with a character outside the alphabet (a trailing newline
\* included), with an empty label, a label over 63 characters or over 253
\* characters in all.
C5_HostValidatorExact ==
    vhPc = "out" => (vhResult <=> (ip_address_ok(vhHost) \/ StatedHostname(vhHost)))

\* The hosts C5 fails on are exactly those that end in one newline after an
\* otherwise valid hostname.
C5_OnlyTrailingNewline ==
    vhPc = "out" =>
        \/ vhResult <=> (ip_address_ok(vhHost) \/ StatedHostname(vhHost))
        \/ /\ vhResult
           /\ vhHost[Len(vhHost)] = "\n"
           /\ StatedHostname(SubSeq(vhHost, 1, Len(vhHost) - 1))

(***************************************************************************)
(* SpecDecrypt: the appliance encrypts a plaintext with standard padding   *)
(* and decrypt is applied to the ciphertext.                               *)
(***************************************************************************)
MaxPlainLen == 33

\* {"href":"State","Ident":{"href":"Ident/"}}
PlainDocument ==
    <<"{", "\"", "h", "r", "e", "f", "\"", ":", "\"", "S", "t", "a", "t", "e", "\"",
      ",", "\"", "I", "d", "e", "n", "t", "\"", ":", "{", "\"", "h", "r", "e", "f",
      "\"", ":", "\"", "I", "d", "e", "n", "t", "/", "\"", "}", "}">>

\* the plaintexts: every prefix of the document up to MaxPlainLen bytes
Plaintexts == {encode_utf8(SubSeq(PlainDocument, 1, n)) : n \in 0..MaxPlainLen}

GroupKeyA == [i \in 1..64 |-> i]
GroupKeyZero == [i \in 1..64 |-> 0]
GroupKeyShort == [i \in 1..16 |-> i]

SignatureA == [i \in 1..32 |-> 100 + (i % 16)]
SignatureB == [i \in 1..16 |-> i]

InitDecrypt ==
    /\ dcPc = "in"
    /\ dcPlain \in Plaintexts
    /\ dcKey \in {GroupKeyA, GroupKeyZero, SubSeq(GroupKeyA, 1, 32)}
    /\ dcSig \in {hex_upper(SignatureA), hex_upper(SignatureB)}
    /\ dcOut = ValueError
    /\ HostIdle
    /\ HrefIdle
    /\ GatewayIdle
    /\ ThreadsIdle

\* decrypt(C, GroupKey, signature_hex) on the ciphertext C of dcPlain
Decrypt ==
    /\ dcPc = "in"
    /\ dcOut' = decrypt(device_encrypt(dcPlain, dcKey, bytes_fromhex(dcSig).data),
                        dcKey, dcSig)
    /\ dcPc' = "out"
    /\ UNCHANGED <<dcPlain, dcKey, dcSig, hostVars, hrefVars, gatewayVars, threadVars>>

NextDecrypt == Decrypt

SpecDecrypt == InitDecrypt /\ [][NextDecrypt]_vars

\* C1: round trip. For every plaintext P, GroupKey of at least 32 bytes and
\* signature of at least 16 bytes, decrypt applied to the AES-256-CBC
\* ciphertext of P (standard padding) returns exactly P: the same length, no
\* trailing padding bytes.
C1_RoundTrip ==
    dcPc = "out" => (dcOut.ok /\ dcOut.data = dcPlain)

\* What decrypt returns instead: the plaintext with its padding still on.
C1_ReturnsPaddedPlaintext ==
    dcPc = "out" => (dcOut.ok /\ dcOut.data = pkcs7_pad(dcPlain))

(***************************************************************************)
(* SpecHref: iterate_to_all_hrefs applied to one JSON tree.                *)
(***************************************************************************)
NameKey == <<"n", "a", "m", "e">>
HrefCapKey == <<"H", "r", "e", "f">>
StateText == <<"S", "t", "a", "t", "e">>

JLeaves ==
    { JStr(StateText), JStr(<<>>), JStr(<<"/", "I", "d", "e", "n", "t", "/">>),
      JStr(<<"/">>), JNum(<<"1">>), JLit(<<"n", "u", "l", "l">>) }

JLevel1 ==
    {JObj(<<Field(HrefKey, l)>>) : l \in JLeaves}
    \cup {JObj(<<Field(k, JStr(StateText)), Field(HrefKey, m)>>) :
              k \in {NameKey, HrefCapKey}, m \in {JStr(StateText), JNum(<<"1">>)}}
    \cup {JArr(<<>>), JObj(<<>>)}
    \cup {JArr(<<l>>) : l \in JLeaves}
    \cup {JArr(<<JStr(StateText), l>>) : l \in JLeaves}

JLevel2 ==
    {JObj(<<Field(HrefKey, n)>>) : n \in JLevel1}
    \cup {JObj(<<Field(NameKey, n), Field(HrefKey, JStr(StateText))>>) : n \in JLevel1}
    \cup {JArr(<<n, m>>) : n \in JLevel1, m \in JLevel1}

JLevel3 ==
    {JArr(<<n>>) : n \in JLevel2}
    \cup {JObj(<<Field(HrefKey, n)>>) : n \in JLevel2}

JTrees == JLeaves \cup JLevel1 \cup JLevel2 \cup JLevel3

BasePaths ==
    { <<"/">>,
      <<"/", "D", "e", "v", "i", "c", "e", "s", "/", "1", "/">>,
      <<"/", "D", "e", "v", "i", "c", "e", "s", "/", "1">>,
      <<"/", "/", "a", "/", "/">> }

InitHref ==
    /\ hrPc = "in"
    /\ hrTree \in JTrees
    /\ hrHost \in {<<"h">>, <<"1", ".", "2", ".", "3", ".", "4">>}
    /\ hrBase \in BasePaths
    /\ hrOut = JLit(<<>>)
    /\ HostIdle
    /\ DecryptIdle
    /\ GatewayIdle
    /\ ThreadsIdle

RewriteLinks ==
    /\ hrPc = "in"
    /\ hrOut' = iterate_to_all_hrefs(hrTree, hrHost, hrBase)
    /\ hrPc' = "out"
    /\ UNCHANGED <<hrTree, hrHost, hrBase, hostVars, decryptVars, gatewayVars,
                   threadVars>>

NextHref == RewriteLinks

SpecHref == InitHref /\ [][NextHref]_vars

\* The text left of s once every '/' at its start, or at its end, is dropped.
NoLeadingSlash(s) ==
    LET firstKept == {i \in 1..Len(s) : s[i] # "/" /\ \A j \in 1..(i - 1) : s[j] = "/"}
    IN  IF firstKept = {} THEN <<>>
        ELSE SubSeq(s, CHOOSE i \in firstKept : TRUE, Len(s))

NoTrailingSlash(s) ==
    LET lastKept == {i \in 1..Len(s) : s[i] # "/" /\ \A j \in (i + 1)..Len(s) : s[j] = "/"}
    IN  IF lastKept = {} THEN <<>>
        ELSE SubSeq(s, 1, CHOOSE i \in lastKept : TRUE)

\* <a href="/explore/<host>/<p>">v</a>
StatedAnchor(host, basePath, v) ==
    LET p == NoLeadingSlash(NoTrailingSlash(basePath) \o <<"/">> \o NoLeadingSlash(v))
    IN  <<"<", "a", " ", "h", "r", "e", "f", "=", "\"", "/", "e", "x", "p", "l", "o",
          "r", "e", "/">> \o host \o <<"/">> \o p \o <<"\"", ">">> \o v
            \o <<"<", "/", "a", ">">>

\* The postcondition relating a tree to the tree after the rewrite.
RECURSIVE HrefPostcondition(_, _, _, _)
HrefPostcondition(before, after, host, basePath) ==
    IF before.t \in {"obj", "arr"}
    THEN /\ after.t = before.t
         /\ after.s = before.s
         /\ Len(after.kids) = Len(before.kids)
         /\ \A i \in 1..Len(before.kids) :
                /\ after.kids[i].k = before.kids[i].k
                /\ IF /\ before.t = "obj"
                      /\ before.kids[i].k = HrefKey
                      /\ before.kids[i].v.t = "str"
                      /\ before.kids[i].v.s # <<>>
                   THEN after.kids[i].v =
                            JStr(StatedAnchor(host, basePath, before.kids[i].v.s))
                   ELSE HrefPostcondition(before.kids[i].v, after.kids[i].v,
                                          host, basePath)
    ELSE after = before

\* C10: after iterate_to_all_hrefs(tree, host, basePath) every object field
\* named exactly "href" whose value was a non-empty string v, at any depth
\* of objects and arrays (inside the value of a non-string href field too),
\* holds <a href="/explore/<host>/<p>">v</a>, p being basePath without its
\* trailing slash, a '/', and v without its leading slash, with no leading
\* slash; every other value, key, array length and order is unchanged.
C10_LinkRewriterPostcondition ==
    hrPc = "out" => HrefPostcondition(hrTree, hrOut, hrHost, hrBase)

\* {"href":"State"} with host "h" and basePath "/Devices/1/" has become
\* {"href":"<a href=\"/explore/h/Devices/1/State\">State</a>"}.
C10_Witness ==
    /\ hrPc = "out"
    /\ hrTree = JObj(<<Field(HrefKey, JStr(StateText))>>)
    /\ hrHost = <<"h">>
    /\ hrBase = <<"/", "D", "e", "v", "i", "c", "e", "s", "/", "1", "/">>
    /\ hrOut = JObj(<<Field(HrefKey, JStr(
            <<"<", "a", " ", "h", "r", "e", "f", "=", "\"", "/", "e", "x", "p",
              "l", "o", "r", "e", "/", "h", "/", "D", "e", "v", "i", "c", "e",
              "s", "/", "1", "/", "S", "t", "a", "t", "e", "\"", ">", "S", "t",
              "a", "t", "e", "<", "/", "a", ">">>))>>)

(***************************************************************************)
(* Spec: the gateway. It serves one request at a time: a request arrives  *)
(* on one of the three routes, the handler runs to its outbound call, the *)
(* appliance answers or the call fails, and the handler returns.          *)
(***************************************************************************)
MaxTick == 2

EnvGroupKeys ==
    { hex_upper(GroupKeyA),         \* 64 bytes
      hex_upper(GroupKeyShort),     \* 16 bytes: a warning at start-up, no more
      <<"z", "z">> }                \* not hex: the placeholders are used

EnvGroupId ==
    <<"0", "0", "1", "1", "2", "2", "3", "3", "4", "4", "5", "5", "6", "6", "7", "7">>

GoodHost == <<"1", "9", "2", ".", "1", "6", "8", ".", "1", ".", "1", "0">>
NamedHost == <<"m", "i", "e", "l", "e", "-", "1", ".", "l", "a", "n">>
BadHost == <<"b", "a", "d", "_", "h", "o", "s", "t">>
DevicesText == <<"D", "e", "v", "i", "c", "e", "s">>

\* the inbound paths after the route's prefix ('/', '/explore/' or '/init/')
Resources ==
    { favicon,
      GoodHost,
      GoodHost \o <<"/">>,
      GoodHost \o <<"/">> \o DevicesText,
      GoodHost \o <<"/">> \o DevicesText \o <<"/">>,
      NamedHost \o <<"/">> \o DevicesText \o <<"/", "1", "/">> \o StateText,
      NamedHost \o <<"/">> \o DevicesText \o <<"/", "1", "/">> \o StateText \o <<"/">>,
      BadHost \o <<"/">> \o DevicesText,
      <<"-", "a", "/">> }

\* the bodies the appliance sends: the document encrypted with standard
\* padding, the document padded with spaces to the block size and encrypted,
\* a ciphertext cut short, and nothing
CtPadded == device_encrypt(encode_utf8(PlainDocument), GroupKeyA, SignatureA)
CtSpaces ==
    CBC_encrypt_blocks(SubSeq(GroupKeyA, 1, KeySize), SubSeq(SignatureA, 1, BlockSize),
                       encode_utf8(PlainDocument \o Rep(" ", BlockSize - (Len(PlainDocument) % BlockSize))))
CtCut == SubSeq(CtPadded, 1, Len(CtPadded) - 8)
Bodies == {CtPadded, CtSpaces, CtCut, <<>>}

SigId == <<"0", "0", "1", "1">>
XSignatureGood == MieleH256 \o SigId \o <<":">> \o hex_upper(SignatureA)
XSignatures ==
    { NoHeader,
      Header(<<>>),
      Header(XSignatureGood),
      \* whitespace between two bytes of the hex part
      Header(MieleH256 \o SigId \o <<":">> \o hex_upper(SubSeq(SignatureA, 1, 1))
                 \o <<" ">> \o hex_upper(SubSeq(SignatureA, 2, 16))),
      \* another scheme
      Header(<<"M", "i", "e", "l", "e", " ">> \o SigId \o <<":">> \o hex_upper(SignatureA)),
      \* a second colon
      Header(XSignatureGood \o <<":", "0", "0">>),
      \* no colon
      Header(MieleH256 \o hex_upper(SignatureA)),
      \* not hex
      Header(MieleH256 \o SigId \o <<":", "z", "z">> \o hex_upper(SignatureA)),
      \* an odd number of hex digits
      Header(XSignatureGood \o <<"0">>),
      \* 15 bytes
      Header(MieleH256 \o SigId \o <<":">> \o hex_upper(SubSeq(SignatureA, 1, 15))),
      \* no bytes
      Header(MieleH256 \o SigId \o <<":">>) }

DeviceResponses ==
    {Response(200, c, x) : c \in Bodies, x \in XSignatures}
    \cup {Response(204, <<>>, x) : x \in {NoHeader, Header(XSignatureGood)}}
    \cup {Response(st, c, x) : st \in {404, 500}, c \in {<<>>, CtPadded},
                               x \in {NoHeader, Header(XSignatureGood)}}

DeviceExceptions == {"ConnectTimeout", "ReadTimeout", "ConnectionError", "TooManyRedirects"}

Init ==
    /\ \E k \in EnvGroupKeys :
          /\ group_key = load_group_material(k, EnvGroupId).group_key
          /\ group_id = load_group_material(k, EnvGroupId).group_id
    /\ now = 0
    /\ NoRequest
    /\ HostIdle
    /\ DecryptIdle
    /\ HrefIdle
    /\ ThreadsIdle

\* a request is routed to a handler, which runs to its outbound call or
\* answers without one
Serve(rt, res, begun) ==
    /\ pc = "idle"
    /\ rq_route' = rt
    /\ rq_resource' = res
    /\ rq_host' = begun.host
    /\ rq_path' = begun.resource_path_on_device
    /\ outbound' = begun.calls
    /\ results' = IF begun.done THEN <<begun.result>> ELSE <<>>
    /\ pc' = IF begun.done THEN "done" ELSE "sent"
    /\ UNCHANGED <<reply, decrypts, configVars, now, hostVars, decryptVars, hrefVars,
                   threadVars>>

\* GET /<resource>, and GET / with the empty resource
JsonRequest ==
    \E res \in Resources \cup {<<>>} :
        Serve("json", res, main_route_request(res, now, group_key, group_id))

\* GET /explore/<resource>
ExploreRequest ==
    \E res \in Resources :
        Serve("explore", res, main_route_request(res, now, group_key, group_id))

\* GET /init/<resource>
InitRequest ==
    \E res \in Resources :
        Serve("init", res, init_request(res, now, group_key, group_id))

\* the handler resumes with what its outbound call came back with
Resume(outcome) ==
    /\ pc = "sent"
    /\ LET done == IF rq_route = "init" THEN init_response(outcome)
                   ELSE main_route_response(rq_route = "explore", rq_host,
                                            rq_path, outcome, group_key)
       IN  /\ results' = Append(results, done.result)
           /\ decrypts' = decrypts \o done.decrypts
    /\ reply' = outcome
    /\ pc' = "done"
    /\ UNCHANGED <<rq_route, rq_resource, rq_host, rq_path, outbound,
                   configVars, now, hostVars, decryptVars, hrefVars,
                   threadVars>>

\* the appliance answers
DeviceResponds ==
    \E r \in DeviceResponses : Resume([exc |-> "none", response |-> r])

\* DeviceFails with one more attempt after a timeout
DeviceFailsRetry ==
    \/ \E e \in DeviceExceptions : Resume([exc |-> e, response |-> NoResponse])
    \/ /\ pc = "sent"
       /\ Len(outbound) = 1
       /\ outbound' = Append(outbound, outbound[1])
       /\ UNCHANGED <<pc, rq_route, rq_resource, rq_host, rq_path, reply, results,
                      decrypts, configVars, now, hostVars, decryptVars, hrefVars,
                   threadVars>>

\* req.get or req.put raises
DeviceFails ==
    \E e \in DeviceExceptions : Resume([exc |-> e, response |-> NoResponse])

\* the response has gone to the caller; the next request can come
NextRequest ==
    /\ pc = "done"
    /\ pc' = "idle"
    /\ rq_route' = ""
    /\ rq_resource' = <<>>
    /\ rq_host' = <<>>
    /\ rq_path' = <<>>
    /\ outbound' = <<>>
    /\ reply' = NoOutcome
    /\ results' = <<>>
    /\ decrypts' = <<>>
    /\ UNCHANGED <<configVars, now, hostVars, decryptVars, hrefVars,
                   threadVars>>

Tick ==
    /\ now < MaxTick
    /\ now' = now + 1
    /\ UNCHANGED <<configVars, requestVars, hostVars, decryptVars, hrefVars,
                   threadVars>>

Next ==
    \/ JsonRequest
    \/ ExploreRequest
    \/ InitRequest
    \/ DeviceResponds
    \/ DeviceFails
    \/ NextRequest
    \/ Tick

Spec == Init /\ [][Next]_vars

(***************************************************************************)
(* The claims about the gateway.                                           *)
(***************************************************************************)
UrlPrefix == <<"h", "t", "t", "p", ":", "/", "/">>

\* the path of an outbound call: its URL after the scheme and the Host header
DevicePathOf(call) ==
    SubSeq(call.url, Len(UrlPrefix) + Len(call.headers.Host) + 1, Len(call.url))

EndsWithSlash(s) == s # <<>> /\ s[Len(s)] = "/"

\* C3: the bytes that are HMAC-signed for a proxied GET are exactly
\* "GET\n" + host + devicePath + "\n\n" + acceptHeader + "\n" + httpDate + "\n",
\* with the host, devicePath and date the request itself sends (target URL,
\* Host header, Date header), the date being that of the moment the request
\* is handled, and devicePath begins with '/'.
C3_SignedBytes ==
    \A i \in 1..Len(outbound) :
        outbound[i].method = "GET" =>
            LET call == outbound[i]
            IN  /\ startswith(call.url, UrlPrefix \o call.headers.Host)
                /\ DevicePathOf(call) # <<>>
                /\ DevicePathOf(call)[1] = "/"
                /\ call.headers.Date = get_current_time_in_http_format(call.at)
                /\ call.headers.Accept = accept_header
                /\ call.headers.Authorization.signature.msg =
                       <<"G", "E", "T", "\n">> \o call.headers.Host \o DevicePathOf(call)
                           \o <<"\n", "\n">> \o call.headers.Accept \o <<"\n">>
                           \o call.headers.Date \o <<"\n">>

\* A GET for miele-1.lan/Devices/1/State is on its way, sent in the second
\* second, signed over the bytes written out here.
C3_Witness ==
    /\ pc = "sent"
    /\ rq_route = "json"
    /\ outbound[1].method = "GET"
    /\ outbound[1].headers.Authorization.signature.msg =
           <<"G", "E", "T", "\n", "m", "i", "e", "l", "e", "-", "1", ".", "l", "a", "n", 
           "/", "D", "e", "v", "i", "c", "e", "s", "/", "1", "/", "S", "t", "a", "t", "e", 
           "\n", "\n", "a", "p", "p", "l", "i", "c", "a", "t", "i", "o", "n", "/", "v", 
           "n", "d", ".", "m", "i", "e", "l", "e", ".", "v", "1", "+", "j", "s", "o", "n", 
           "\n", "T", "u", "e", ",", " ", "0", "1", " ", "J", "a", "n", " ", "2", "0", 
           "3", "0", " ", "0", "0", ":", "0", "0", ":", "0", "1", " ", "G", "M", "T", 
           "\n">>

\* does a path segment follow the host in the inbound path?
SegmentAfterHost(res) ==
    \E i \in 1..Len(res) : res[i] = "/" /\ \E j \in (i + 1)..Len(res) : res[j] # "/"

\* C4: trailing-slash fidelity. The devicePath of the outbound GET ends with
\* '/' exactly when the inbound path ended with '/' and a segment follows
\* the host; with no segment after the host it is exactly "/".
C4_TrailingSlashFidelity ==
    \A i \in 1..Len(outbound) :
        outbound[i].method = "GET" =>
            IF SegmentAfterHost(rq_resource)
            THEN EndsWithSlash(DevicePathOf(outbound[i])) <=> EndsWithSlash(rq_resource)
            ELSE DevicePathOf(outbound[i]) = <<"/">>

\* What the code does instead: the devicePath never ends with '/' unless it
\* is "/" itself.
C4_TrailingSlashDropped ==
    \A i \in 1..Len(outbound) :
        outbound[i].method = "GET" =>
            IF SegmentAfterHost(rq_resource)
            THEN ~EndsWithSlash(DevicePathOf(outbound[i]))
            ELSE DevicePathOf(outbound[i]) = <<"/">>

\* the request was proxied and the appliance answered with a success status
\* and a body
ProxiedBody ==
    /\ pc = "done"
    /\ rq_route \in {"json", "explore"}
    /\ outbound # <<>>
    /\ reply.exc = "none"
    /\ reply.response.status < 400
    /\ reply.response.status # 204
    /\ reply.response.content # <<>>

\* a response that carries decrypted content
HasPlaintext(r) == r.kind \in {"json", "html_json", "html_not_json"}

\* C2: when the ciphertext is block-aligned and the padding of the decrypted
\* data is invalid, decrypt fails and the request is answered with status
\* 500 and no body of plaintext.
C2_InvalidPaddingFails ==
    (/\ ProxiedBody
     /\ decrypts # <<>>
     /\ decrypts[1].cipher # NoCipher
     /\ Len(reply.response.content) % BlockSize = 0
     /\ ~pkcs7_valid(CBC_decrypt_blocks(decrypts[1].cipher[1].key,
                                        decrypts[1].cipher[1].iv,
                                        reply.response.content)))
        => (Len(results) = 1 /\ results[1].status = 500 /\ ~HasPlaintext(results[1]))

\* the X-Signature header has the form "MieleH256 <id>:<hex>" and its hex
\* part decodes to at least 16 bytes
StatedSignature(x) ==
    /\ x.present
    /\ startswith(x.value, MieleH256)
    /\ Cardinality({i \in 1..Len(x.value) : x.value[i] = ":"}) = 1
    /\ LET colon == CHOOSE i \in 1..Len(x.value) : x.value[i] = ":"
           hex == bytes_fromhex(SubSeq(x.value, colon + 1, Len(x.value)))
       IN  hex.ok /\ Len(hex.data) >= 16

StatedIV(x) ==
    LET colon == CHOOSE i \in 1..Len(x.value) : x.value[i] = ":"
    IN  SubSeq(bytes_fromhex(SubSeq(x.value, colon + 1, Len(x.value))).data, 1, 16)

\* C6: the decryption guard. AES decryption is attempted, and decrypted
\* content returned, only when GroupKey has at least 32 bytes and the
\* response carries an X-Signature header "MieleH256 <id>:<hex>" whose hex
\* part decodes to at least 16 bytes, the IV being the first 16 of them,
\* never a padded or otherwise made-up value; a non-empty successful
\* response whose header is missing, malformed, not hex or too short is
\* answered with 500 and no plaintext.
C6_DecryptionGuard ==
    /\ \A i \in 1..Len(decrypts) :
          decrypts[i].cipher # NoCipher =>
              /\ Len(group_key) >= 32
              /\ StatedSignature(reply.response.x_signature)
              /\ decrypts[i].cipher[1].key = SubSeq(group_key, 1, 32)
              /\ decrypts[i].cipher[1].iv = StatedIV(reply.response.x_signature)
    /\ \A i \in 1..Len(results) :
          HasPlaintext(results[i]) =>
              /\ Len(group_key) >= 32
              /\ StatedSignature(reply.response.x_signature)
              /\ Len(decrypts) = 1
              /\ decrypts[1].cipher # NoCipher
    /\ (ProxiedBody /\ ~StatedSignature(reply.response.x_signature)) =>
          /\ Len(results) = 1
          /\ results[1].status = 500
          /\ ~HasPlaintext(results[1])
          /\ \A i \in 1..Len(decrypts) : decrypts[i].cipher = NoCipher

\* The appliance sent a body with a 15-byte signature and a 64-byte group
\* key was loaded: the caller got 500.
C6_Witness ==
    /\ ProxiedBody
    /\ Len(group_key) = 64
    /\ reply.response.content = CtPadded
    /\ reply.response.x_signature =
           Header(MieleH256 \o SigId \o <<":">> \o hex_upper(SubSeq(SignatureA, 1, 15)))
    /\ Len(decrypts) = 1
    /\ results[1].status = 500

\* C7: a success status that is 204 or comes with an empty body bypasses
\* decryption: decrypt is not called, no X-Signature header is needed, and
\* the caller gets 204 with an empty body (JSON mode) or the "No Content"
\* page (explore mode).
C7_NoContentBypass ==
    (/\ pc = "done"
     /\ rq_route \in {"json", "explore"}
     /\ outbound # <<>>
     /\ reply.exc = "none"
     /\ reply.response.status < 400
     /\ (reply.response.status = 204 \/ reply.response.content = <<>>))
        => /\ decrypts = <<>>
           /\ Len(results) = 1
           /\ IF rq_route = "json"
              THEN /\ results[1].status = 204
                   /\ results[1].kind = "empty"
                   /\ results[1].text = <<>>
              ELSE /\ results[1].kind = "html_no_content"
                   /\ results[1].status = reply.response.status

\* A 200 with an empty body and no X-Signature header was answered with 204.
C7_Witness ==
    /\ pc = "done"
    /\ rq_route = "json"
    /\ reply.exc = "none"
    /\ reply.response = Response(200, <<>>, NoHeader)
    /\ results = <<Result(204, "empty", "", <<>>, JLit(<<>>))>>

\* C8: on the proxy routes and on /init, a timeout of the outbound call (a
\* connect timeout included) is answered with 504, a refused or unavailable
\* connection with 503, and a 4xx/5xx of the appliance with that same
\* status and its details, before the empty-body shortcut and decryption.
C8_FailureMapping ==
    (pc = "done" /\ outbound # <<>>) =>
        /\ Len(results) = 1
        /\ reply.exc \in {"ConnectTimeout", "ReadTimeout"} => results[1].status = 504
        /\ reply.exc = "ConnectionError" => results[1].status = 503
        /\ (reply.exc = "none" /\ reply.response.status >= 400) =>
              /\ results[1].status = reply.response.status
              /\ results[1].kind = "error_json"
              /\ results[1].error = "http_error"
              /\ results[1].text =
                     IF reply.response.content = <<>> THEN no_details
                     ELSE decode_utf8_replace(reply.response.content)
              /\ decrypts = <<>>

\* A connect timeout on the explore route was answered with 504.
C8_Witness ==
    /\ pc = "done"
    /\ rq_route = "explore"
    /\ outbound # <<>>
    /\ reply.exc = "ConnectTimeout"
    /\ results[1].status = 504

\* C9: a request makes at most one outbound call and ends with exactly one
\* response to the caller; after a timeout, a connection failure, an error
\* status or a decryption failure there is no second call.
C9_OneCallOneResult ==
    /\ Len(outbound) <= 1
    /\ Len(results) <= 1
    /\ pc = "done" <=> Len(results) = 1
    /\ pc = "sent" => Len(outbound) = 1
    /\ Len(decrypts) <= 1

\* A read timeout was reported once, after one call.
C9_Witness ==
    /\ pc = "done"
    /\ reply.exc = "ReadTimeout"
    /\ Len(outbound) = 1
    /\ results = <<ErrorResult(504, "timeout", <<>>)>>

\* the first segment of an inbound path: its text before the first '/'
FirstSegment(res) ==
    LET cut == {i \in 1..Len(res) : res[i] = "/"}
    IN  IF cut = {} THEN res
        ELSE SubSeq(res, 1, (CHOOSE i \in cut : \A j \in cut : i <= j) - 1)

\* C12: validation precedes any network activity. On the JSON, explore and
\* init routes a request whose path has no first segment, or whose first
\* segment fails is_valid_host, is answered with 400 and makes no outbound
\* call; so every outbound call (GET or commissioning PUT) goes to a host
\* that passed is_valid_host and is the first segment of the inbound path.
C12_ValidationFirst ==
    pc # "idle" =>
        /\ (FirstSegment(rq_resource) = <<>> \/ ~is_valid_host(FirstSegment(rq_resource)))
              => /\ pc = "done"
                 /\ outbound = <<>>
                 /\ Len(results) = 1
                 /\ results[1].status = 400
                 /\ results[1].kind = "error_json"
        /\ \A i \in 1..Len(outbound) :
              /\ outbound[i].method = IF rq_route = "init" THEN "PUT" ELSE "GET"
              /\ outbound[i].headers.Host = FirstSegment(rq_resource)
              /\ is_valid_host(outbound[i].headers.Host)
              /\ startswith(outbound[i].url, UrlPrefix \o FirstSegment(rq_resource) \o <<"/">>)

\* /init/bad_host/Devices was answered with 400 and no call was made.
C12_Witness ==
    /\ pc = "done"
    /\ rq_route = "init"
    /\ rq_resource = BadHost \o <<"/">> \o DevicesText
    /\ outbound = <<>>
    /\ results = <<ErrorResult(400, "invalid_host", BadHost)>>

(***************************************************************************)
(* Requests handled at the same time. The server runs each handler in a   *)
(* thread of its own; a handler has its local variables and reads the     *)
(* module's globals group_key, group_id and the clock.                     *)
(***************************************************************************)
MaxRequests == 2
Requests == 1..MaxRequests

\* a handler's local variables: the route it serves, the host and device
\* path it took from the inbound path, the call it made; and the response it
\* returned, which is all that is left of it when it is done
IdleRequest ==
    [pc |-> "idle", route |-> "", host |-> <<>>, path |-> <<>>, outbound |-> <<>>,
     results |-> <<>>]

ConcurrentResources ==
    { GoodHost \o <<"/">> \o DevicesText \o <<"/">>,
      NamedHost \o <<"/">> \o DevicesText \o <<"/", "1", "/">> \o StateText,
      BadHost \o <<"/">> \o DevicesText }

\* the appliance's answer to each: one block, the document {} encrypted
CtEmptyObject == device_encrypt(encode_utf8(<<"{", "}">>), GroupKeyA, SignatureA)

ConcurrentOutcomes ==
    { [exc |-> "none", response |-> Response(200, CtEmptyObject, Header(XSignatureGood))],
      [exc |-> "ReadTimeout", response |-> NoResponse] }

\* GROUP_KEY is 64 bytes of hex, or is not hex
ConcurrentGroupKeys == {hex_upper(GroupKeyA), <<"z", "z">>}

InitThreads ==
    /\ \E k \in ConcurrentGroupKeys :
          /\ group_key = load_group_material(k, EnvGroupId).group_key
          /\ group_id = load_group_material(k, EnvGroupId).group_id
    /\ now = 0
    /\ NoRequest
    /\ HostIdle
    /\ DecryptIdle
    /\ HrefIdle
    /\ inflight = [r \in Requests |-> IdleRequest]

\* a thread takes a request and runs its handler to the outbound call, or to
\* the answer when there is no call
Accept(r, rt, res, begun) ==
    /\ inflight[r].pc = "idle"
    /\ inflight' =
           [inflight EXCEPT ![r] =
               IF begun.done
               THEN [IdleRequest EXCEPT !.pc = "done", !.results = <<begun.result>>]
               ELSE [pc |-> "sent",
                     route |-> rt,
                     host |-> begun.host,
                     path |-> begun.resource_path_on_device,
                     outbound |-> begun.calls,
                     results |-> <<>>]]
    /\ UNCHANGED <<configVars, now, requestVars, hostVars, decryptVars, hrefVars>>

AcceptJson ==
    \E res \in ConcurrentResources :
        LET begun == main_route_request(res, now, group_key, group_id)
        IN  \E r \in Requests : Accept(r, "json", res, begun)

AcceptExplore ==
    \E res \in ConcurrentResources :
        LET begun == main_route_request(res, now, group_key, group_id)
        IN  \E r \in Requests : Accept(r, "explore", res, begun)

AcceptInit ==
    \E res \in ConcurrentResources :
        LET begun == init_request(res, now, group_key, group_id)
        IN  \E r \in Requests : Accept(r, "init", res, begun)

\* the thread's outbound call comes back and its handler runs to the end
Finish(r, outcome) ==
    /\ inflight[r].pc = "sent"
    /\ LET rq == inflight[r]
           done == IF rq.route = "init" THEN init_response(outcome)
                   ELSE main_route_response(rq.route = "explore", rq.host, rq.path,
                                            outcome, group_key)
       IN  inflight' =
               [inflight EXCEPT ![r] =
                   [IdleRequest EXCEPT !.pc = "done", !.results = <<done.result>>]]
    /\ UNCHANGED <<configVars, now, requestVars, hostVars, decryptVars, hrefVars>>

CallReturns ==
    \E r \in Requests, o \in ConcurrentOutcomes : Finish(r, o)

\* the response has gone to the caller; the thread takes the next request
Close ==
    \E r \in Requests :
        /\ inflight[r].pc = "done"
        /\ inflight' = [inflight EXCEPT ![r] = IdleRequest]
        /\ UNCHANGED <<configVars, now, requestVars, hostVars, decryptVars, hrefVars>>

NextThreads ==
    \/ AcceptJson
    \/ AcceptExplore
    \/ AcceptInit
    \/ CallReturns
    \/ Close
    \/ Tick

SpecThreads == InitThreads /\ [][NextThreads]_vars

\* the outbound calls of the requests in hand
CallsOf(r) == {inflight[r].outbound[i] : i \in 1..Len(inflight[r].outbound)}

\* the clock counts half seconds
SameSecond(a, b) == a \div 2 = b \div 2

\* any two signed calls for the same host and devicePath in the same second
\* carry the same Authorization header
SameRequestSameAuthorization ==
    \A r1 \in Requests, r2 \in Requests :
        \A a \in CallsOf(r1), b \in CallsOf(r2) :
            (/\ a.method = "GET"
             /\ b.method = "GET"
             /\ a.headers.Host = b.headers.Host
             /\ DevicePathOf(a) = DevicePathOf(b)
             /\ SameSecond(a.at, b.at))
                => a.headers.Authorization = b.headers.Authorization

\* the Authorization header is a function of the host, the devicePath, the
\* second and the group material, whenever and by whichever request the call
\* is made
AuthorizationAt(host, path, second) ==
    [scheme |-> MieleH256,
     id |-> hex_upper(group_id),
     signature |->
         hmac_sha256_hex_upper(group_key,
             signing_string(host, path, get_current_time_in_http_format(2 * second)))]

AuthorizationIsAFunction ==
    \A r \in Requests :
        \A c \in CallsOf(r) :
            c.method = "GET" =>
                c.headers.Authorization =
                    AuthorizationAt(c.headers.Host, DevicePathOf(c), c.at \div 2)

\* a step of one request's handler leaves the group material and the
\* variables of every other request as they were
HandlersShareNothing ==
    /\ group_key' = group_key
    /\ group_id' = group_id
    /\ \A r \in Requests :
          inflight'[r] # inflight[r] =>
              \A q \in Requests \ {r} : inflight'[q] = inflight[q]

\* C11: determinism and statelessness under concurrency. Two requests with
\* the same host, devicePath and timestamp (same second) produce identical
\* Authorization headers however they interleave with other requests (the
\* header is a function of host, devicePath, second and group material); no
\* handler on any route changes GroupKey, GroupID or any other state shared
\* between requests, which keep their start-up values for the whole run.
C11_DeterministicStateless ==
    /\ []SameRequestSameAuthorization
    /\ []AuthorizationIsAFunction
    /\ [][HandlersShareNothing]_vars

\* Two requests are awaiting the appliance at the same time: one accepted on
\* the JSON route in the first half of a second, one on the explore route in
\* the second half, both for 192.168.1.10/Devices, with one Authorization.
C11_Witness ==
    /\ now = 1
    /\ inflight[1].pc = "sent" /\ inflight[1].route = "json"
    /\ inflight[2].pc = "sent" /\ inflight[2].route = "explore"
    /\ inflight[1].outbound[1].at = 0
    /\ inflight[2].outbound[1].at = 1
    /\ inflight[1].host = GoodHost /\ inflight[2].host = GoodHost
    /\ inflight[1].path = <<"/">> \o DevicesText
    /\ inflight[2].path = <<"/">> \o DevicesText
    /\ inflight[1].outbound[1].headers.Authorization
           = inflight[2].outbound[1].headers.Authorization
    /\ inflight[1].outbound[1].headers.Authorization.signature.key = GroupKeyA

====
